---- MODULE Spec2Model ----
(***************************************************************************)
(* neosvrpy: the session/token lifecycle of Client (login, logout,         *)
(* clean_session, loadToken, saveToken), the refresh gate and the response *)
(* classification of Client._request, as a state machine.                  *)
(*                                                                         *)
(* Time is an integer number of seconds.  A datetime field that holds      *)
(* Python's None holds NoTime; a string field that holds None holds None.  *)
(***************************************************************************)
EXTENDS Integers, Sequences, FiniteSets, TLC

\* Python's None for the string fields (userId, token, secretMachineId).
None == "None"

\* Python's None for the datetime fields (expire, lastUpdate).
NoTime == -1

\* client.py:104, the literal the elapsed seconds are compared against.
RenewalWindow == 3600000

\* The clock advances at most MaxTicks times (by one second or by one window).
MaxTicks == 2

\* Client instances, all constructed with default arguments: Client().
Clients == {"A", "B"}

VARIABLES
    userId,           \* userId[c]: Client.userId
    token,            \* token[c]: Client.token
    expire,           \* expire[c]: Client.expire
    secretMachineId,  \* secretMachineId[c]: Client.secretMachineId
    lastUpdate,       \* lastUpdate[c]: Client.lastUpdate
    session,          \* headers of the Session() object of the class default
    authfile,         \* the file AUTHFILE_NAME: <<>> when absent, else <<record>>
    now,              \* datetime.now()
    last              \* the operation that ran last: whose, how it ended, and the
                      \* transport calls it issued with the server's answers

vars == <<userId, token, expire, secretMachineId, lastUpdate, session, authfile, now, last>>

(***************************************************************************)
(* JSON values as req.json() decodes them, and HTTP responses.             *)
(***************************************************************************)
JObject(f) == [kind |-> "object", val |-> f]
JArray(s) == [kind |-> "array", val |-> s]
JString(s) == [kind |-> "string", val |-> s]
JNumber(n) == [kind |-> "number", val |-> n]
\* A body that is no JSON: req.json() raises JSONDecodeError.
NotJson == [kind |-> "invalid", val |-> <<>>]

\* s has t as a contiguous run of tokens: Python's `t in s` on text.
Contains(s, t) ==
    \E i \in 1..(Len(s) - Len(t) + 1) : SubSeq(s, i, i + Len(t) - 1) = t

\* The seconds of a calendar day: ISO 8601 writes a timestamp as a date and a
\* time of day.
SecondsPerDay == 86400

\* dateutil's isoparse on the wire form of a timestamp.
isoparse(s) == s[2] * SecondsPerDay + s[3]

\* The wire form of a timestamp: its date and its time of day.
IsoString(t) == <<"iso8601", t \div SecondsPerDay, t % SecondsPerDay>>

(***************************************************************************)
(* What the server can answer.                                             *)
(***************************************************************************)
\* The sessions the server hands out on POST /userSessions: one that lives
\* for two renewal windows, one that expires after a second.
UserSessions ==
    { [userId |-> "U-alice", token |-> "tok1", secretMachineId |-> "m1",
       expire |-> 2 * RenewalWindow],
      [userId |-> "U-bob", token |-> "tok2", secretMachineId |-> "m2",
       expire |-> 1] }

\* The body of a successful login: the session and its expiry.
LoginBody(s) ==
    [text |-> <<"userId", s.userId, "token", s.token, "expire">>,
     json |-> JObject([userId |-> s.userId, token |-> s.token,
                       secretMachineId |-> s.secretMachineId,
                       expire |-> IsoString(s.expire)])]

LoginBodies == { LoginBody(s) : s \in UserSessions }

\* Bodies other than a login's.
OtherBodies ==
    { [text |-> <<>>, json |-> NotJson],
      [text |-> <<"plain", "text">>, json |-> NotJson],
      [text |-> <<"Invalid credentials">>, json |-> NotJson],
      [text |-> <<"message", "bad thing">>,
       json |-> JObject([message |-> "bad thing"])],
      [text |-> <<"message", "Invalid credentials">>,
       json |-> JObject([message |-> "Invalid credentials"])],
      [text |-> <<"id", "R-1">>, json |-> JObject([id |-> "R-1"])],
      [text |-> <<"userId", "U-alice">>, json |-> JObject([userId |-> "U-alice"])],
      [text |-> <<"message">>, json |-> JArray(<<"message">>)],
      [text |-> <<"U-alice", "U-bob">>, json |-> JArray(<<"U-alice", "U-bob">>)],
      [text |-> <<"a", "message">>, json |-> JString(<<"a", "message">>)],
      [text |-> <<"Invalid credentials">>, json |-> JString(<<"Invalid credentials">>)],
      [text |-> <<"ok">>, json |-> JString(<<"ok">>)],
      [text |-> <<"5">>, json |-> JNumber(5)] }

Bodies == LoginBodies \cup OtherBodies

StatusCodes == {200, 201, 204, 403, 500}

\* Every response of the transport: req.status_code, req.text, req.json().
Responses ==
    { [status_code |-> st, text |-> b.text, json |-> b.json] :
        st \in StatusCodes, b \in Bodies }

Response(st, b) == [status_code |-> st, text |-> b.text, json |-> b.json]

(***************************************************************************)
(* Client.headers and the session's headers.                               *)
(***************************************************************************)
\* No Authorization entry in a headers dict.
NoAuth == <<>>

\* f"neos {self.userId}:{self.token}"
AuthValue(u, t) == <<"neos", u, t>>

\* Client.headers for a client holding userId u and token t: the
\* Authorization entry of the dict it returns (NoAuth: the default dict only).
headers(u, t) == IF u = None \/ t = None THEN NoAuth ELSE AuthValue(u, t)

\* self.session of client c.  `session: Session = Session()` is evaluated once,
\* in the class body: every Client() holds that one Session object.
SessionOf(c) == session

\* self.session.headers.update(self.headers): an entry the dict lacks is kept.
HeadersUpdate(s, h) == IF h = NoAuth THEN s ELSE [s EXCEPT !.Authorization = h]

(***************************************************************************)
(* Client._request.                                                        *)
(***************************************************************************)
NoValue == [kind |-> "none", val |-> <<>>]

Return(v) == [exc |-> None, carries |-> NoValue, value |-> v]

Raise(e, what) == [exc |-> e, carries |-> what, value |-> NoValue]

\* `"message" in response` on a decoded JSON value that supports `in`.
HasMessage(j) ==
    CASE j.kind = "object" -> "message" \in DOMAIN j.val
      [] j.kind = "array" -> \E i \in 1..Len(j.val) : j.val[i] = "message"
      [] j.kind = "string" -> Contains(j.val, <<"message">>)
      [] OTHER -> FALSE

\* Classify with the 403 test ahead of the "Invalid credentials" test.
Classify_status_first(r) ==
    IF r.status_code \notin {200, 204}
    THEN IF r.status_code = 403
         THEN Raise("InvalidToken", [kind |-> "headers", val |-> <<>>])
         ELSE IF Contains(r.text, <<"Invalid credentials">>)
              THEN Raise("InvalidCredentials", [kind |-> "text", val |-> r.text])
              ELSE Raise("NeosAPIException", [kind |-> "response", val |-> r.text])
    ELSE IF r.status_code = 200
         THEN IF r.json.kind = "invalid"
              THEN Return([kind |-> "text", val |-> r.text])
              ELSE IF r.json.kind = "number"
                   THEN Raise("TypeError", NoValue)
                   ELSE IF HasMessage(r.json)
                        THEN IF r.json.kind = "object"
                             THEN Raise("NeosAPIException",
                                        [kind |-> "message", val |-> <<r.json.val.message>>])
                             ELSE Raise("TypeError", NoValue)
                        ELSE Return(r.json)
         ELSE Return(NoValue)

\* Classify without the `"message" in response` test of line 131.
Classify_no_message(r) ==
    IF r.status_code \notin {200, 204}
    THEN IF Contains(r.text, <<"Invalid credentials">>)
         THEN Raise("InvalidCredentials", [kind |-> "text", val |-> r.text])
         ELSE IF r.status_code = 403
              THEN Raise("InvalidToken", [kind |-> "headers", val |-> <<>>])
              ELSE Raise("NeosAPIException", [kind |-> "response", val |-> r.text])
    ELSE IF r.status_code = 200
         THEN IF r.json.kind = "invalid"
              THEN Return([kind |-> "text", val |-> r.text])
              ELSE Return(r.json)
         ELSE Return(NoValue)

\* Lines 120-137: what _request does with the response r of its transport call.
Classify(r) ==
    IF r.status_code \notin {200, 204}
    THEN IF Contains(r.text, <<"Invalid credentials">>)
         THEN Raise("InvalidCredentials", [kind |-> "text", val |-> r.text])
         ELSE IF r.status_code = 403
              THEN Raise("InvalidToken", [kind |-> "headers", val |-> <<>>])
              ELSE Raise("NeosAPIException", [kind |-> "response", val |-> r.text])
    ELSE IF r.status_code = 200
         THEN IF r.json.kind = "invalid"
              THEN Return([kind |-> "text", val |-> r.text])
              ELSE IF r.json.kind = "number"
                   THEN Raise("TypeError", NoValue)
                   ELSE IF HasMessage(r.json)
                        THEN IF r.json.kind = "object"
                             THEN Raise("NeosAPIException",
                                        [kind |-> "message", val |-> <<r.json.val.message>>])
                             ELSE Raise("TypeError", NoValue)
                        ELSE Return(r.json)
         ELSE Return(NoValue)

\* One call of the transport: the verb, the path, the Authorization header the
\* session attaches, self.lastUpdate when it is issued, and the server's answer.
Call(c, verb, path, lu, r) ==
    [verb |-> verb, path |-> path, Authorization |-> SessionOf(c).Authorization,
     lastUpdate |-> lu, response |-> r]

\* Send with a retry: a call whose response is classified as an error is
\* issued a second time.
Send_retry(c, verb, path, lu, r) ==
    [out |-> Classify(r),
     calls |-> IF Classify(r).exc # None
               THEN <<Call(c, verb, path, lu, r), Call(c, verb, path, lu, r)>>
               ELSE <<Call(c, verb, path, lu, r)>>,
     lastUpdate |-> lu]

\* Lines 114-137 for client c: the transport call and the classified response.
Send(c, verb, path, lu, r) ==
    [out |-> Classify(r), calls |-> <<Call(c, verb, path, lu, r)>>, lastUpdate |-> lu]

\* The local expiry error of line 113.
TokenExpired == Raise("InvalidToken", [kind |-> "str", val |-> <<"Token expired">>])

\* _request without line 106: the keep-alive is sent, self.lastUpdate stays.
_request_no_advance(c, verb, path, ignoreUpdate, ka, r) ==
    IF lastUpdate[c] # NoTime /\ ~ignoreUpdate
    THEN IF now - lastUpdate[c] <= RenewalWindow
         THEN LET keep == Send(c, "patch", <<"/userSessions">>, lastUpdate[c], ka)
              IN  IF keep.out.exc # None
                  THEN keep
                  ELSE LET end == Send(c, verb, path, lastUpdate[c], r)
                       IN  [end EXCEPT !.calls = keep.calls \o end.calls]
         ELSE [out |-> TokenExpired, calls |-> <<>>, lastUpdate |-> lastUpdate[c]]
    ELSE Send(c, verb, path, lastUpdate[c], r)

\* _request without the else of lines 112-113: a keep-alive whatever the
\* elapsed time.
_request_no_expiry(c, verb, path, ignoreUpdate, ka, r) ==
    IF lastUpdate[c] # NoTime /\ ~ignoreUpdate
    THEN LET keep == Send(c, "patch", <<"/userSessions">>, lastUpdate[c], ka)
         IN  IF keep.out.exc # None
             THEN keep
             ELSE LET end == Send(c, verb, path, now, r)
                  IN  [end EXCEPT !.calls = keep.calls \o end.calls]
    ELSE Send(c, verb, path, lastUpdate[c], r)

\* _request that swallows an error of the keep-alive: lastUpdate is advanced
\* and the endpoint call is issued whatever the keep-alive's answer.
_request_swallow_keep_alive(c, verb, path, ignoreUpdate, ka, r) ==
    IF lastUpdate[c] # NoTime /\ ~ignoreUpdate
    THEN IF now - lastUpdate[c] <= RenewalWindow
         THEN LET keep == Send(c, "patch", <<"/userSessions">>, lastUpdate[c], ka)
                  end == Send(c, verb, path, now, r)
              IN  [end EXCEPT !.calls = keep.calls \o end.calls]
         ELSE [out |-> TokenExpired, calls |-> <<>>, lastUpdate |-> lastUpdate[c]]
    ELSE Send(c, verb, path, lastUpdate[c], r)

\* Client._request(verb, path, ignoreUpdate) of client c, the server answering
\* ka to the keep-alive (if one is issued) and r to the endpoint call: how it
\* ends, the transport calls it issued in order, and self.lastUpdate afterwards.
_request(c, verb, path, ignoreUpdate, ka, r) ==
    IF lastUpdate[c] # NoTime /\ ~ignoreUpdate
    THEN IF now - lastUpdate[c] <= RenewalWindow
         THEN LET keep == Send(c, "patch", <<"/userSessions">>, lastUpdate[c], ka)
              IN  IF keep.out.exc # None
                  THEN keep
                  ELSE LET end == Send(c, verb, path, now, r)
                       IN  [end EXCEPT !.calls = keep.calls \o end.calls]
         ELSE [out |-> TokenExpired, calls |-> <<>>, lastUpdate |-> lastUpdate[c]]
    ELSE Send(c, verb, path, lastUpdate[c], r)

(***************************************************************************)
(* The state after construction, and the operations of Client.             *)
(***************************************************************************)
Init ==
    /\ userId = [c \in Clients |-> None]
    /\ token = [c \in Clients |-> None]
    /\ expire = [c \in Clients |-> NoTime]
    /\ secretMachineId = [c \in Clients |-> None]
    /\ lastUpdate = [c \in Clients |-> NoTime]
    /\ session = [Authorization |-> NoAuth]
    /\ authfile = [exists |-> FALSE, content |-> <<>>]
    /\ now = 0
    /\ last = [op |-> "init", client |-> None, out |-> Return(NoValue), calls |-> <<>>,
               args |-> <<>>]

\* What an operation leaves in `last`.
Ran(op, c, out, calls) ==
    [op |-> op, client |-> c, out |-> out, calls |-> calls, args |-> <<>>]

\* The same for an operation whose arguments matter: they are kept in args.
RanWith(op, c, args, out, calls) == [Ran(op, c, out, calls) EXCEPT !.args = args]

\* An operation that ends with exception e (None: it returns) outside _request.
Ends(e) == IF e = None THEN Return(NoValue) ELSE Raise(e, NoValue)

\* Client.login of client c, the server answering ka to the keep-alive and r
\* to the POST.  The fields are assigned in the order of lines 142-146; a
\* response that lacks one raises there and leaves the earlier ones assigned.
login(c, ka, r) ==
    LET q == _request(c, "post", <<"/userSessions">>, FALSE, ka, r)
        response == q.out.value
        has(k) == response.kind = "object" /\ k \in DOMAIN response.val
        ok == q.out.exc = None
        n1 == ok /\ has("userId")
        n2 == n1 /\ has("token")
        n3 == n2 /\ has("secretMachineId")
        n4 == n3 /\ has("expire")
        out == IF ~ok THEN q.out
               ELSE IF n4 THEN Return(NoValue)
               ELSE IF response.kind = "object" THEN Raise("KeyError", NoValue)
               ELSE Raise("TypeError", NoValue)
    IN  /\ userId' = IF n1 THEN [userId EXCEPT ![c] = response.val.userId] ELSE userId
        /\ token' = IF n2 THEN [token EXCEPT ![c] = response.val.token] ELSE token
        /\ secretMachineId' =
               IF n3 THEN [secretMachineId EXCEPT ![c] = response.val.secretMachineId]
               ELSE secretMachineId
        /\ expire' = IF n4 THEN [expire EXCEPT ![c] = isoparse(response.val.expire)]
                     ELSE expire
        /\ lastUpdate' = [lastUpdate EXCEPT ![c] = IF n4 THEN now ELSE q.lastUpdate]
        /\ session' = IF n4
                      THEN HeadersUpdate(SessionOf(c),
                               headers(response.val.userId, response.val.token))
                      ELSE session
        /\ last' = Ran("login", c, out, q.calls)
        /\ UNCHANGED <<authfile, now>>

\* Client.clean_session of client c: the fields are cleared first, then
\* `del self.session.headers["Authorization"]` raises KeyError when the
\* session has no such header, else the header is gone.
clean_session(c) ==
    /\ userId' = [userId EXCEPT ![c] = None]
    /\ token' = [token EXCEPT ![c] = None]
    /\ expire' = [expire EXCEPT ![c] = NoTime]
    /\ secretMachineId' = [secretMachineId EXCEPT ![c] = None]
    /\ lastUpdate' = [lastUpdate EXCEPT ![c] = NoTime]
    /\ session' = HeadersUpdate([SessionOf(c) EXCEPT !.Authorization = NoAuth],
                                headers(None, None))

\* How clean_session of client c ends.
clean_session_exc(c) ==
    IF SessionOf(c).Authorization = NoAuth THEN "KeyError" ELSE None

\* logout that clears the local state whatever the DELETE's outcome.
logout_clear_regardless(c, r) ==
    LET q == _request(c, "delete", <<"/userSessions", userId[c], token[c]>>, TRUE, r, r)
    IN  /\ clean_session(c)
        /\ last' = Ran("logout", c,
                       IF q.out.exc # None THEN q.out ELSE Ends(clean_session_exc(c)),
                       q.calls)
        /\ UNCHANGED <<authfile, now>>

\* logout whose DELETE goes through the refresh gate (no ignoreUpdate).
logout_gated(c, r) ==
    LET q == _request(c, "delete", <<"/userSessions", userId[c], token[c]>>, FALSE, r, r)
    IN  IF q.out.exc # None
        THEN /\ lastUpdate' = [lastUpdate EXCEPT ![c] = q.lastUpdate]
             /\ last' = Ran("logout", c, q.out, q.calls)
             /\ UNCHANGED <<userId, token, expire, secretMachineId, session,
                            authfile, now>>
        ELSE /\ clean_session(c)
             /\ last' = Ran("logout", c, Ends(clean_session_exc(c)), q.calls)
             /\ UNCHANGED <<authfile, now>>

\* Client.logout of client c, the server answering r to the DELETE.
logout(c, r) ==
    LET q == _request(c, "delete", <<"/userSessions", userId[c], token[c]>>, TRUE, r, r)
    IN  IF q.out.exc # None
        THEN /\ last' = Ran("logout", c, q.out, q.calls)
             /\ UNCHANGED <<userId, token, expire, secretMachineId, lastUpdate,
                            session, authfile, now>>
        ELSE /\ clean_session(c)
             /\ last' = Ran("logout", c, Ends(clean_session_exc(c)), q.calls)
             /\ UNCHANGED <<authfile, now>>

\* isoformat of the date alone: the time of day is not written.
isoformat_date_only(t) == <<"iso8601", t \div SecondsPerDay, 0>>

\* datetime.isoformat: the date and the time of day of t.
isoformat(t) == <<"iso8601", t \div SecondsPerDay, t % SecondsPerDay>>

\* datetime.fromisoformat: the instant a date and a time of day denote.
fromisoformat(s) == s[2] * SecondsPerDay + s[3]

\* loadToken comparing with <=: a token is loaded at the instant it expires.
loadToken_not_strict(c) ==
    IF authfile.exists /\ authfile.content # <<>>
    THEN LET f == authfile.content[1]
             e == fromisoformat(f.expire)
         IN  IF now <= e
             THEN /\ token' = [token EXCEPT ![c] = f.token]
                  /\ userId' = [userId EXCEPT ![c] = f.userId]
                  /\ expire' = [expire EXCEPT ![c] = e]
                  /\ secretMachineId' =
                         [secretMachineId EXCEPT ![c] = f.secretMachineId]
                  /\ session' = HeadersUpdate(SessionOf(c), headers(f.userId, f.token))
                  /\ last' = Ran("loadToken", c, Ends(None), <<>>)
                  /\ UNCHANGED <<lastUpdate, authfile, now>>
             ELSE /\ last' = Ran("loadToken", c, Ends("NoTokenError"), <<>>)
                  /\ UNCHANGED <<userId, token, expire, secretMachineId,
                                 lastUpdate, session, authfile, now>>
    ELSE /\ last' = Ran("loadToken", c,
                        Ends(IF authfile.exists THEN "JSONDecodeError"
                             ELSE "NoTokenError"), <<>>)
         /\ UNCHANGED <<userId, token, expire, secretMachineId, lastUpdate,
                        session, authfile, now>>

\* Client.loadToken of client c.
loadToken(c) ==
    IF authfile.exists
    THEN IF authfile.content = <<>>
         THEN /\ last' = Ran("loadToken", c, Ends("JSONDecodeError"), <<>>)
              /\ UNCHANGED <<userId, token, expire, secretMachineId, lastUpdate,
                             session, authfile, now>>
         ELSE LET f == authfile.content[1]
                  e == fromisoformat(f.expire)
              IN  IF now < e
                  THEN /\ token' = [token EXCEPT ![c] = f.token]
                       /\ userId' = [userId EXCEPT ![c] = f.userId]
                       /\ expire' = [expire EXCEPT ![c] = e]
                       /\ secretMachineId' =
                              [secretMachineId EXCEPT ![c] = f.secretMachineId]
                       /\ session' = HeadersUpdate(SessionOf(c), headers(f.userId, f.token))
                       /\ last' = Ran("loadToken", c, Ends(None), <<>>)
                       /\ UNCHANGED <<lastUpdate, authfile, now>>
                  ELSE /\ last' = Ran("loadToken", c, Ends("NoTokenError"), <<>>)
                       /\ UNCHANGED <<userId, token, expire, secretMachineId,
                                      lastUpdate, session, authfile, now>>
    ELSE /\ last' = Ran("loadToken", c, Ends("NoTokenError"), <<>>)
         /\ UNCHANGED <<userId, token, expire, secretMachineId, lastUpdate,
                        session, authfile, now>>

\* Client.saveToken of client c: open(.., "w+") leaves an empty file when
\* self.expire is None and `.isoformat()` raises.
saveToken(c) ==
    /\ authfile' =
           IF expire[c] = NoTime
           THEN [exists |-> TRUE, content |-> <<>>]
           ELSE [exists |-> TRUE,
                 content |-> << [userId |-> userId[c], expire |-> isoformat(expire[c]),
                                 token |-> token[c],
                                 secretMachineId |-> secretMachineId[c]] >>]
    /\ last' = Ran("saveToken", c,
                   Ends(IF expire[c] = NoTime THEN "AttributeError" ELSE None), <<>>)
    /\ UNCHANGED <<userId, token, expire, secretMachineId, lastUpdate, session, now>>

\* Client.searchUser of client c: an endpoint operation that returns what
\* _request returns.
searchUser(c, ka, r) ==
    LET q == _request(c, "get", <<"/users">>, FALSE, ka, r)
    IN  /\ lastUpdate' = [lastUpdate EXCEPT ![c] = q.lastUpdate]
        /\ last' = Ran("searchUser", c, q.out, q.calls)
        /\ UNCHANGED <<userId, token, expire, secretMachineId, session, authfile, now>>

\* Python's truth test of an optional string: None and '' are false.
Truthy(x) == x \notin {None, ""}

\* getMessageLegacy with the fromTime test moved behind the request.
getMessageLegacy_check_after(c, fromTime, ka, r) ==
    LET q == _request(c, "get", <<"/users", userId[c], "messages">>, FALSE, ka, r)
        out == IF q.out.exc = None /\ Truthy(fromTime)
               THEN Raise("ValueError", NoValue) ELSE q.out
    IN  /\ lastUpdate' = [lastUpdate EXCEPT ![c] = q.lastUpdate]
        /\ last' = RanWith("getMessageLegacy", c, <<fromTime>>, out, q.calls)
        /\ UNCHANGED <<userId, token, expire, secretMachineId, session, authfile, now>>

\* Client.getMessageLegacy of client c.  A fromTime that passes Python's
\* truth test raises ValueError('fromTime is not yet implemented') on line 294,
\* before params is filled and before _request is entered; otherwise it is an
\* endpoint operation on /users/{userId}/messages.
getMessageLegacy(c, fromTime, ka, r) ==
    IF Truthy(fromTime)
    THEN /\ last' = RanWith("getMessageLegacy", c, <<fromTime>>,
                            Raise("ValueError", NoValue), <<>>)
         /\ UNCHANGED <<userId, token, expire, secretMachineId, lastUpdate, session,
                        authfile, now>>
    ELSE LET q == _request(c, "get", <<"/users", userId[c], "messages">>, FALSE, ka, r)
         IN  /\ lastUpdate' = [lastUpdate EXCEPT ![c] = q.lastUpdate]
             /\ last' = RanWith("getMessageLegacy", c, <<fromTime>>, q.out, q.calls)
             /\ UNCHANGED <<userId, token, expire, secretMachineId, session, authfile,
                            now>>

(***************************************************************************)
(* The session lifecycle: two clients, the clock, a server that answers    *)
(* each transport call with one of ServerReplies.                          *)
(***************************************************************************)
EmptyBody == [text |-> <<>>, json |-> NotJson]

\* The answers of the server in the lifecycle specifications: a session for
\* either user (one long-lived, one that expires at once), success without a
\* body, a rejected token, and an error message riding on a 200.
ServerReplies ==
    { Response(200, b) : b \in LoginBodies }
    \cup { Response(204, EmptyBody),
           Response(403, EmptyBody),
           Response(200, [text |-> <<"message", "bad thing">>,
                          json |-> JObject([message |-> "bad thing"])]) }

\* The answers of the server to a keep-alive PATCH: success without a body,
\* a rejected token, a server error, and a 200 whose JSON body is a bare
\* number.
KeepAliveReplies ==
    { Response(204, EmptyBody),
      Response(403, EmptyBody),
      Response(500, EmptyBody),
      Response(200, [text |-> <<"5">>, json |-> JNumber(5)]) }

Login(c) ==
    \E ka \in KeepAliveReplies, r \in ServerReplies :
        login(c, ka, r)

Logout(c) ==
    \E r \in ServerReplies : logout(c, r)

CleanSession(c) ==
    /\ clean_session(c)
    /\ last' = Ran("clean_session", c, Ends(clean_session_exc(c)), <<>>)
    /\ UNCHANGED <<authfile, now>>

LoadToken(c) == loadToken(c)

SaveToken(c) == saveToken(c)

SearchUser(c) ==
    \E ka \in KeepAliveReplies, r \in ServerReplies :
        searchUser(c, ka, r)

\* The values a caller passes as fromTime: nothing, an empty string, a time.
FromTimes == {None, "", "2021-06-01T00:00:00"}

GetMessageLegacy(c) ==
    \E fromTime \in FromTimes, ka \in KeepAliveReplies, r \in ServerReplies :
        getMessageLegacy(c, fromTime, ka, r)

\* The number of times the clock has advanced.
Ticks == (now \div RenewalWindow) + (now % RenewalWindow)

\* Time passes: one second, or one renewal window.
Tick ==
    /\ Ticks < MaxTicks
    /\ \E d \in {1, RenewalWindow} : now' = now + d
    /\ last' = Ran("tick", None, Return(NoValue), <<>>)
    /\ UNCHANGED <<userId, token, expire, secretMachineId, lastUpdate, session,
                   authfile>>

\* One client used sequentially while time passes.
Next ==
    \/ Login("A")
    \/ Logout("A")
    \/ CleanSession("A")
    \/ LoadToken("A")
    \/ SaveToken("A")
    \/ SearchUser("A")
    \/ GetMessageLegacy("A")
    \/ Tick

Spec == Init /\ [][Next]_vars

\* Two clients, both constructed as Client(), used in turn.
NextShared ==
    \/ \E c \in Clients : Login(c)
    \/ \E c \in Clients : Logout(c)
    \/ \E c \in Clients : CleanSession(c)
    \/ \E c \in Clients : LoadToken(c)
    \/ \E c \in Clients : SaveToken(c)
    \/ \E c \in Clients : SearchUser(c)

SpecShared == Init /\ [][NextShared]_vars

(***************************************************************************)
(* One client at one instant, the server answering each endpoint call with *)
(* any of Responses: every status with every body.                         *)
(***************************************************************************)
LoginAnswered(c) ==
    \E ka \in KeepAliveReplies, r \in Responses : login(c, ka, r)

LogoutAnswered(c) ==
    \E r \in Responses : logout(c, r)

SearchUserAnswered(c) ==
    \E ka \in KeepAliveReplies, r \in Responses : searchUser(c, ka, r)

NextResponse ==
    \/ LoginAnswered("A")
    \/ LogoutAnswered("A")
    \/ SearchUserAnswered("A")

SpecResponse == Init /\ [][NextResponse]_vars

(***************************************************************************)
(* Vocabulary of the properties.                                           *)
(***************************************************************************)
\* The operations that call _request without ignoreUpdate.
Gated == {"searchUser", "login"}

\* now - lastUpdate of client c.
Elapsed(c) == now - lastUpdate[c]

\* A keep-alive: PATCH /userSessions.
IsKeepAlive(call) == call.verb = "patch" /\ call.path = <<"/userSessions">>

\* The endpoint call of operation op.
IsEndpoint(op, call) ==
    \/ op = "searchUser" /\ call.verb = "get" /\ call.path = <<"/users">>
    \/ op = "login" /\ call.verb = "post" /\ call.path = <<"/userSessions">>

\* The server accepts a call: it answers 204, or 200 with a body that is not
\* JSON, or 200 with a JSON object, array or string in which `"message" in`
\* finds nothing.
Accepts(r) ==
    \/ r.status_code = 204
    \/ r.status_code = 200 /\ r.json.kind = "invalid"
    \/ /\ r.status_code = 200
       /\ r.json.kind \in {"object", "array", "string"}
       /\ ~HasMessage(r.json)

\* The _request of operation l returned: searchUser returns what it returned,
\* login goes on to read the session out of it.
RequestReturned(l) ==
    \/ l.out.exc = None
    \/ l.op = "login" /\ l.out.exc \in {"KeyError", "TypeError"}

\* The transport calls of l that are keep-alives.
KeepAlives(l) == { i \in DOMAIN l.calls : IsKeepAlive(l.calls[i]) }

(***************************************************************************)
(* C1.  A client authenticated by login, elapsed time strictly inside the  *)
(* renewal window: a non-bypassed request issues exactly one keep-alive    *)
(* PATCH to /userSessions, before the endpoint call, then advances         *)
(* lastUpdate to the current time, then issues the endpoint call exactly   *)
(* once; if the server accepts both, the request succeeds.                 *)
(***************************************************************************)
InsideWindow(c) ==
    lastUpdate[c] # NoTime /\ Elapsed(c) >= 0 /\ Elapsed(c) < RenewalWindow

\* C1 as stated: the endpoint call is issued whatever the keep-alive's answer.
C1_KeepAliveThenEndpoint ==
    [][\A c \in Clients :
          (last'.op \in Gated /\ last'.client = c /\ InsideWindow(c)) =>
              /\ Len(last'.calls) = 2
              /\ IsKeepAlive(last'.calls[1])
              /\ last'.calls[1].lastUpdate = lastUpdate[c]
              /\ IsEndpoint(last'.op, last'.calls[2])
              /\ last'.calls[2].lastUpdate = now
              /\ (Accepts(last'.calls[1].response) /\ Accepts(last'.calls[2].response)
                    => RequestReturned(last'))]_vars

\* C1 amended: exactly one keep-alive PATCH to /userSessions is issued, first
\* and with lastUpdate not yet advanced.  Either the keep-alive raises, its
\* error is the request's, no endpoint call is issued and lastUpdate stays;
\* or lastUpdate is advanced to the current time and then the endpoint call
\* is issued exactly once.  A keep-alive the server accepts does not raise,
\* and if the server accepts both calls the request succeeds.
C1_KeepAliveThenEndpointIfAccepted ==
    [][\A c \in Clients :
          (last'.op \in Gated /\ last'.client = c /\ InsideWindow(c)) =>
              /\ Len(last'.calls) \in {1, 2}
              /\ KeepAlives(last') = {1}
              /\ last'.calls[1].lastUpdate = lastUpdate[c]
              /\ \/ /\ Len(last'.calls) = 1
                    /\ ~Accepts(last'.calls[1].response)
                    /\ last'.out.exc \notin {None, "KeyError"}
                    /\ lastUpdate'[c] = lastUpdate[c]
                 \/ /\ Len(last'.calls) = 2
                    /\ Accepts(last'.calls[1].response)
                    /\ IsEndpoint(last'.op, last'.calls[2])
                    /\ last'.calls[2].lastUpdate = now
                    /\ lastUpdate'[c] = now
                    /\ (Accepts(last'.calls[2].response) => RequestReturned(last'))]_vars

\* A request one second after the login: the keep-alive went out with the old
\* lastUpdate, the endpoint call with the new one, and the request returned.
C1_Witness ==
    /\ last.op = "searchUser"
    /\ Len(last.calls) = 2
    /\ IsKeepAlive(last.calls[1])
    /\ last.calls[2].lastUpdate = last.calls[1].lastUpdate + 1
    /\ lastUpdate[last.client] = now
    /\ last.out.exc = None

(***************************************************************************)
(* C2.  Elapsed time beyond the renewal window: a non-bypassed request     *)
(* fails with InvalidToken, issues no transport call, and leaves userId,   *)
(* token, expire, secretMachineId and lastUpdate unchanged.                *)
(***************************************************************************)
BeyondWindow(c) == lastUpdate[c] # NoTime /\ Elapsed(c) > RenewalWindow

C2_ExpiredFailsFast ==
    [][\A c \in Clients :
          (last'.op \in Gated /\ last'.client = c /\ BeyondWindow(c)) =>
              /\ last'.out = TokenExpired
              /\ last'.calls = <<>>
              /\ UNCHANGED <<userId, token, expire, secretMachineId, lastUpdate>>]_vars

\* A searchUser more than a window after the login ended with the local error.
C2_Witness ==
    /\ last.op = "searchUser"
    /\ last.out = TokenExpired
    /\ last.calls = <<>>
    /\ BeyondWindow(last.client)
    /\ userId[last.client] # None

(***************************************************************************)
(* C3.  After a request has failed with the local expiry InvalidToken, the *)
(* caller can re-login: login on the same client POSTs the credentials     *)
(* and, the server accepting them, brings the client back to Authenticated *)
(* (new userId and token stored, lastUpdate = now).                        *)
(***************************************************************************)
\* The server answers r with a session.
GrantsSession(r) == r \in { Response(200, b) : b \in LoginBodies }

C3_ReloginAfterExpiry ==
    [][\A c \in Clients :
          (/\ last.op \in Gated /\ last.client = c /\ last.out = TokenExpired
           /\ last'.op = "login" /\ last'.client = c) =>
              /\ last'.calls # <<>>
              /\ IsEndpoint("login", last'.calls[Len(last'.calls)])
              /\ GrantsSession(last'.calls[Len(last'.calls)].response) =>
                    /\ last'.out.exc = None
                    /\ userId'[c] = last'.calls[Len(last'.calls)].response.json.val.userId
                    /\ token'[c] = last'.calls[Len(last'.calls)].response.json.val.token
                    /\ lastUpdate'[c] = now]_vars

(***************************************************************************)
(* C4.  The refresh policy runs before every authenticated request that    *)
(* does not bypass it: whenever the client holds a userId and a token,     *)
(* from login or from loadToken, a non-bypassed request either issues a    *)
(* keep-alive PATCH before its endpoint call or fails with InvalidToken.   *)
(***************************************************************************)
C4_RefreshBeforeEveryRequest ==
    [][\A c \in Clients :
          (/\ last'.op = "searchUser" /\ last'.client = c
           /\ userId[c] # None /\ token[c] # None) =>
              \/ /\ last'.calls # <<>>
                 /\ IsKeepAlive(last'.calls[1])
              \/ /\ last'.calls = <<>>
                 /\ last'.out.exc = "InvalidToken"]_vars

(***************************************************************************)
(* C5.  Each Client instance owns its session/token state exclusively:     *)
(* with two instances created with default arguments, no login, logout,    *)
(* clean_session or loadToken on one instance changes the Authorization    *)
(* header that the other instance's requests carry.                        *)
(***************************************************************************)
C5_SessionOwnedByInstance ==
    [][\A c \in Clients : \A d \in Clients \ {c} :
          (/\ last'.client = c
           /\ last'.op \in {"login", "logout", "clean_session", "loadToken"}) =>
              SessionOf(d)'.Authorization = SessionOf(d).Authorization]_vars

(***************************************************************************)
(* C6.  After a successful login and until the client's state is cleared   *)
(* (or replaced by loadToken), every request the client issues carries     *)
(* Authorization 'neos {userId}:{token}' of its most recent successful     *)
(* login; the login stores the userId, token, secretMachineId and expire   *)
(* of the response and sets lastUpdate to the time of the login.           *)
(***************************************************************************)
\* Client c has logged in and its state has not been cleared since:
\* lastUpdate is set by a successful login only, unset by clean_session only,
\* and userId[c], token[c] are those of that login unless loadToken replaced them.
LoggedIn(c) == lastUpdate[c] # NoTime

C6_RequestsCarryLoginHeader ==
    [][\A c \in Clients :
          /\ (last'.op = "searchUser" /\ last'.client = c /\ LoggedIn(c)) =>
                \A i \in DOMAIN last'.calls :
                    last'.calls[i].Authorization = AuthValue(userId[c], token[c])
          /\ (last'.op = "login" /\ last'.client = c /\ last'.out.exc = None) =>
                LET granted == last'.calls[Len(last'.calls)].response.json.val
                IN  /\ userId'[c] = granted.userId
                    /\ token'[c] = granted.token
                    /\ secretMachineId'[c] = granted.secretMachineId
                    /\ expire'[c] = isoparse(granted.expire)
                    /\ lastUpdate'[c] = now
                    /\ SessionOf(c)'.Authorization = AuthValue(granted.userId, granted.token)]_vars

(***************************************************************************)
(* C7.  logout clears local state only after the server acknowledges the   *)
(* DELETE: if the DELETE raises an error, userId, token, expire,           *)
(* secretMachineId, lastUpdate and the session's Authorization header are  *)
(* unchanged.                                                              *)
(***************************************************************************)
C7_LogoutKeepsStateOnError ==
    [][\A c \in Clients :
          (/\ last'.op = "logout" /\ last'.client = c
           /\ ~Accepts(last'.calls[1].response)) =>
              /\ last'.out.exc \notin {None, "KeyError"}
              /\ UNCHANGED <<userId, token, expire, secretMachineId, lastUpdate>>
              /\ SessionOf(c)'.Authorization = SessionOf(c).Authorization]_vars

\* A logout the server answered 403 to, the client still holding its session.
C7_Witness ==
    /\ last.op = "logout"
    /\ last.calls[1].response.status_code = 403
    /\ last.out.exc = "InvalidToken"
    /\ userId[last.client] # None
    /\ token[last.client] # None
    /\ lastUpdate[last.client] # NoTime
    /\ SessionOf(last.client).Authorization =
           AuthValue(userId[last.client], token[last.client])

(***************************************************************************)
(* C8.  After a logout whose DELETE the server acknowledges, from any      *)
(* state (a client that never logged in included), logout returns without *)
(* error, userId, token, expire, secretMachineId and lastUpdate are unset, *)
(* the session carries no Authorization header, and later requests issue   *)
(* no keep-alive.                                                          *)
(***************************************************************************)
C8_LogoutClearsEverything ==
    [][\A c \in Clients :
          (/\ last'.op = "logout" /\ last'.client = c
           /\ Accepts(last'.calls[1].response)) =>
              /\ last'.out.exc = None
              /\ userId'[c] = None
              /\ token'[c] = None
              /\ expire'[c] = NoTime
              /\ secretMachineId'[c] = None
              /\ lastUpdate'[c] = NoTime
              /\ SessionOf(c)'.Authorization = NoAuth]_vars

(***************************************************************************)
(* C9.  A non-2xx response whose body contains 'Invalid credentials'       *)
(* raises InvalidCredentials whatever its status, 403 included; a 403      *)
(* without the marker raises InvalidToken.                                 *)
(***************************************************************************)
\* The response that decided how the last operation's _request ended: that
\* of its last transport call.
Answer == last.calls[Len(last.calls)].response

HasMarker(r) == Contains(r.text, <<"Invalid credentials">>)

C9_MarkerBeforeStatus ==
    (last.op \in {"searchUser", "login", "logout"} /\ last.calls # <<>>) =>
        /\ (Answer.status_code \notin 200..299 /\ HasMarker(Answer)) =>
              /\ last.out.exc = "InvalidCredentials"
              /\ last.out.carries = [kind |-> "text", val |-> Answer.text]
        /\ (Answer.status_code = 403 /\ ~HasMarker(Answer)) =>
              last.out.exc = "InvalidToken"

\* A 403 that carries the marker ended as InvalidCredentials.
C9_Witness ==
    /\ last.op = "searchUser"
    /\ last.calls # <<>>
    /\ Answer.status_code = 403
    /\ HasMarker(Answer)
    /\ last.out.exc = "InvalidCredentials"

(***************************************************************************)
(* C10.  A status-200 response whose JSON body contains a `message` field  *)
(* never returns a payload: _request raises the API error carrying that    *)
(* message, for every endpoint operation.                                  *)
(***************************************************************************)
HasMessageField(r) == r.json.kind = "object" /\ "message" \in DOMAIN r.json.val

C10_MessageOn200Raises ==
    (/\ last.op \in {"searchUser", "login", "logout"} /\ last.calls # <<>>
     /\ Answer.status_code = 200 /\ HasMessageField(Answer)) =>
        /\ last.out.exc = "NeosAPIException"
        /\ last.out.carries = [kind |-> "message", val |-> <<Answer.json.val.message>>]
        /\ last.out.value = NoValue

\* A login answered 200 {"message": "bad thing"} raised, and stored nothing.
C10_Witness ==
    /\ last.op = "login"
    /\ last.calls # <<>>
    /\ Answer.status_code = 200
    /\ HasMessageField(Answer)
    /\ Answer.json.val.message = "bad thing"
    /\ last.out.exc = "NeosAPIException"
    /\ userId[last.client] = None

(***************************************************************************)
(* C11.  A status-200 response with a JSON body that has no `message`      *)
(* field is returned as the decoded payload and raises no error, whatever  *)
(* the shape of the body: an object without a `message` key, an array (one *)
(* with the string "message" as an element included), a JSON string (one   *)
(* that contains the text "message" included).                             *)
(***************************************************************************)
C11_NoMessageFieldReturnsPayload ==
    (/\ last.op = "searchUser" /\ last.calls # <<>>
     /\ Answer.status_code = 200
     /\ Answer.json.kind \in {"object", "array", "string"}
     /\ ~HasMessageField(Answer)) =>
        /\ last.out.exc = None
        /\ last.out.value = Answer.json

(***************************************************************************)
(* C12.  InvalidCredentials is raised only for non-2xx responses: a        *)
(* response whose status is outside {200, 204} and that is neither a       *)
(* non-2xx response carrying the marker nor a 403 raises the generic API   *)
(* error carrying the response; a 201 does even when its body contains the *)
(* marker.                                                                 *)
(***************************************************************************)
C12_MarkerOnlyOnNon2xx ==
    (/\ last.op \in {"searchUser", "login", "logout"} /\ last.calls # <<>>
     /\ Answer.status_code \notin {200, 204}
     /\ ~(Answer.status_code \notin 200..299 /\ HasMarker(Answer))
     /\ Answer.status_code # 403) =>
        /\ last.out.exc = "NeosAPIException"
        /\ last.out.carries = [kind |-> "response", val |-> Answer.text]

(***************************************************************************)
(* C13.  getMessageLegacy called with fromTime set fails with the          *)
(* unsupported-operation error (ValueError in the code) before any         *)
(* transport call: no keep-alive PATCH and no GET is issued and the        *)
(* session state, lastUpdate included, is unchanged.  This holds in every  *)
(* client state: never logged in, inside the window, beyond it.            *)
(***************************************************************************)
C13_FromTimeRejectedFirst ==
    [][(last'.op = "getMessageLegacy" /\ Truthy(last'.args[1])) =>
          /\ last'.out.exc = "ValueError"
          /\ last'.calls = <<>>
          /\ UNCHANGED <<userId, token, expire, secretMachineId, lastUpdate,
                         session, authfile>>]_vars

\* fromTime was rejected on a client that is inside its renewal window, where
\* a gated request would have sent the keep-alive.
C13_Witness ==
    /\ last.op = "getMessageLegacy" /\ Truthy(last.args[1])
    /\ last.out.exc = "ValueError"
    /\ InsideWindow("A")

(***************************************************************************)
(* C14.  No automatic retry.  One invocation of an API operation issues    *)
(* the endpoint call at most once and at most one keep-alive, whatever the *)
(* server answers; once a transport call is answered with a response that  *)
(* is classified as an error, no further transport call is issued and the  *)
(* invocation ends with an error.                                          *)
(***************************************************************************)
C14_NoRetry ==
    /\ Cardinality(KeepAlives(last)) <= 1
    /\ Cardinality(DOMAIN last.calls \ KeepAlives(last)) <= 1
    /\ \A i \in DOMAIN last.calls :
          ~Accepts(last.calls[i].response) =>
              /\ i = Len(last.calls)
              /\ last.out.exc # None

\* A keep-alive was answered with an error: it is the only call of the
\* invocation, the endpoint call did not follow.
C14_Witness ==
    /\ last.op = "searchUser"
    /\ Len(last.calls) = 1
    /\ IsKeepAlive(last.calls[1])
    /\ ~Accepts(last.calls[1].response)
    /\ last.out.exc # None

(***************************************************************************)
(* C15.  Token round trip.  saveToken on a client that holds a userId, a   *)
(* token, a secretMachineId and an expire in the future writes a file from *)
(* which loadToken reproduces the same userId, token, secretMachineId and  *)
(* expire on the loading client, and sets the Authorization header to      *)
(* 'neos {userId}:{token}'.  The file carries the fields from the one      *)
(* operation to the other, whatever happens in between.                    *)
(***************************************************************************)
\* The credentials client c holds.
Held(c) ==
    [userId |-> userId[c], token |-> token[c],
     secretMachineId |-> secretMachineId[c], expire |-> expire[c]]

\* The credentials a token file f yields when it is read back.
Stored(f) ==
    [userId |-> f.content[1].userId, token |-> f.content[1].token,
     secretMachineId |-> f.content[1].secretMachineId,
     expire |-> fromisoformat(f.content[1].expire)]

\* Client c holds a full set of credentials.
HoldsToken(c) ==
    /\ userId[c] # None /\ token[c] # None /\ secretMachineId[c] # None
    /\ expire[c] # NoTime

\* The token file holds a full set of credentials.
Readable(f) == f.exists /\ f.content # <<>>

C15_TokenRoundTrip ==
    [][\A c \in Clients :
          /\ (last'.op = "saveToken" /\ last'.client = c
              /\ HoldsToken(c) /\ now < expire[c]) =>
                 /\ last'.out.exc = None
                 /\ Readable(authfile')
                 /\ Stored(authfile') = Held(c)
          /\ (last'.op = "loadToken" /\ last'.client = c
              /\ Readable(authfile) /\ now < Stored(authfile).expire) =>
                 /\ last'.out.exc = None
                 /\ userId'[c] = Stored(authfile).userId
                 /\ token'[c] = Stored(authfile).token
                 /\ secretMachineId'[c] = Stored(authfile).secretMachineId
                 /\ expire'[c] = Stored(authfile).expire
                 /\ SessionOf(c)'.Authorization =
                        AuthValue(Stored(authfile).userId, Stored(authfile).token)]_vars

\* A client that holds nothing of its own (its session was cleaned, it has
\* no lastUpdate) has loaded, after time has passed, what was saved.
C15_Witness ==
    /\ last.op = "loadToken" /\ last.out.exc = None
    /\ lastUpdate["A"] = NoTime
    /\ now > 0
    /\ HoldsToken("A")
    /\ Held("A") = Stored(authfile)
    /\ Held("A").expire % SecondsPerDay # 0
    /\ session.Authorization = AuthValue(userId["A"], token["A"])

(***************************************************************************)
(* C16.  loadToken fails with the no-token error when the token file is    *)
(* absent, and when the stored expire is not strictly after the current    *)
(* time; in both cases userId, token, expire, secretMachineId and the      *)
(* Authorization header are left as they were.                             *)
(***************************************************************************)
C16_LoadTokenFailsClean ==
    [][\A c \in Clients :
          (/\ last'.op = "loadToken" /\ last'.client = c
           /\ \/ ~authfile.exists
              \/ Readable(authfile) /\ ~(now < Stored(authfile).expire)) =>
              /\ last'.out.exc = "NoTokenError"
              /\ UNCHANGED <<userId, token, expire, secretMachineId, session>>]_vars

\* loadToken refused a token at the very instant it expires.
C16_Witness ==
    /\ last.op = "loadToken" /\ last.out.exc = "NoTokenError"
    /\ Readable(authfile)
    /\ Stored(authfile).expire = now

(***************************************************************************)
(* Record decoding: RecordType, recordTypeMapping, processRecordList and   *)
(* getInventory, which feeds it the payload _request returns.              *)
(***************************************************************************)
\* The longest record list the server sends.
MaxRecords == 2

\* The enum RecordType: each member and its value.
RecordType ==
    ("OBJECT" :> "object") @@ ("LINK" :> "link") @@ ("DIRECTORY" :> "directory")
    @@ ("WORLD" :> "world") @@ ("TEXTURE" :> "texture") @@ ("AUDIO" :> "audio")

\* dacite's cast RecordType(value): the member with that value; a value of no
\* member raises ValueError.
RecordTypeOf(v) == CHOOSE m \in DOMAIN RecordType : RecordType[m] = v

IsRecordType(v) == \E m \in DOMAIN RecordType : RecordType[m] = v

\* recordTypeMapping with TEXTURE given the class of WORLD.
recordTypeMapping_texture_as_world ==
    ("DIRECTORY" :> "NeosDirectory") @@ ("LINK" :> "NeosLink")
    @@ ("OBJECT" :> "NeosObject") @@ ("WORLD" :> "NeosWorld")
    @@ ("TEXTURE" :> "NeosWorld") @@ ("AUDIO" :> "NeosAudio")

\* The table from RecordType members to the dataclasses derived from
\* NeosRecord.
recordTypeMapping ==
    ("DIRECTORY" :> "NeosDirectory") @@ ("LINK" :> "NeosLink")
    @@ ("OBJECT" :> "NeosObject") @@ ("WORLD" :> "NeosWorld")
    @@ ("TEXTURE" :> "NeosTexture") @@ ("AUDIO" :> "NeosAudio")

\* The fields the derived dataclasses add to NeosRecord.
DerivedFields ==
    {"assetUri", "lastModifyingMachineId", "ownerName", "tags", "creationTime"}

\* The fields dataclass cls declares beyond NeosRecord's.
DeclaredFields(cls) ==
    CASE cls = "NeosLink" -> {"assetUri"}
      [] cls = "NeosDirectory" ->
             {"lastModifyingMachineId", "ownerName", "tags", "creationTime"}
      [] cls = "NeosObject" -> DerivedFields
      [] OTHER -> {}

\* Those of them that are not Optional: dacite raises MissingValueError when
\* the payload lacks one, and fills an absent Optional field with None.
RequiredFields(cls) ==
    CASE cls = "NeosDirectory" -> {"ownerName", "tags"}
      [] OTHER -> DeclaredFields(cls)

\* The raw records of a payload: NeosRecord's own fields are present (id
\* stands for them); recordType is any string; of the derived fields all,
\* none or assetUri alone are present.
RawItems ==
    [id : {"R-1", "R-2"},
     recordType : {RecordType[m] : m \in DOMAIN RecordType} \cup {"avatar"},
     fields : {DerivedFields, {}, {"assetUri"}}]

RecordLists == UNION { [1..n -> RawItems] : n \in 0..MaxRecords }

\* A JSON array of objects.  `"message" in` of such a list is False.
JRecords(s) == [kind |-> "records", val |-> s]

\* The exception the two from_dict calls of lines 92-93 raise on raw_item, or
\* None: the cast to RecordType fails, the table has no entry, a required
\* field of the derived class is missing.
DecodeError(raw) ==
    IF ~IsRecordType(raw.recordType) THEN "ValueError"
    ELSE IF RecordTypeOf(raw.recordType) \notin DOMAIN recordTypeMapping
         THEN "KeyError"
         ELSE IF ~(RequiredFields(recordTypeMapping[RecordTypeOf(raw.recordType)])
                       \subseteq raw.fields)
              THEN "MissingValueError"
              ELSE None

\* The object line 93 builds: an instance of the class the table assigns,
\* NeosRecord's fields kept, the declared fields the payload has kept.
from_dict(raw) ==
    LET cls == recordTypeMapping[RecordTypeOf(raw.recordType)]
    IN  [class |-> cls, id |-> raw.id, recordType |-> RecordTypeOf(raw.recordType),
         fields |-> raw.fields \cap DeclaredFields(cls)]

\* processRecordList that skips the items whose recordType is no member.
processRecordList_skip_unknown(data) ==
    IF data.kind # "records"
    THEN Raise("TypeError", NoValue)
    ELSE LET known == SelectSeq(data.val, LAMBDA raw : IsRecordType(raw.recordType))
             bad == { i \in DOMAIN known : DecodeError(known[i]) # None }
         IN  IF bad = {}
             THEN Return([kind |-> "list",
                          val |-> [i \in DOMAIN known |-> from_dict(known[i])]])
             ELSE Raise(DecodeError(known[CHOOSE i \in bad : \A j \in bad : i <= j]),
                        NoValue)

\* Client.processRecordList on what _request returned.  The loop decodes the
\* items in order and the first that fails ends the call; None (a 204) is
\* not iterable.
processRecordList(data) ==
    IF data.kind # "records"
    THEN Raise("TypeError", NoValue)
    ELSE LET bad == { i \in DOMAIN data.val : DecodeError(data.val[i]) # None }
         IN  IF bad = {}
             THEN Return([kind |-> "list",
                          val |-> [i \in DOMAIN data.val |-> from_dict(data.val[i])]])
             ELSE Raise(DecodeError(data.val[CHOOSE i \in bad : \A j \in bad : i <= j]),
                        NoValue)

\* Client.getInventory of client c.
getInventory(c, ka, r) ==
    LET q == _request(c, "get", <<"/users", userId[c], "records">>, FALSE, ka, r)
        out == IF q.out.exc # None THEN q.out ELSE processRecordList(q.out.value)
    IN  /\ lastUpdate' = [lastUpdate EXCEPT ![c] = q.lastUpdate]
        /\ last' = Ran("getInventory", c, out, q.calls)
        /\ UNCHANGED <<userId, token, expire, secretMachineId, session, authfile, now>>

\* The answers of the server to GET /users/{userId}/records: any record list,
\* success without a body, a rejected token.
InventoryReplies ==
    { Response(200, [text |-> <<"records">>, json |-> JRecords(s)]) : s \in RecordLists }
    \cup { Response(204, EmptyBody), Response(403, EmptyBody) }

\* A new client fetches its inventory, once.
GetInventory(c) ==
    /\ last.op = "init"
    /\ \E ka \in KeepAliveReplies, r \in InventoryReplies : getInventory(c, ka, r)

NextRecords == GetInventory("A")

SpecRecords == Init /\ [][NextRecords]_vars

\* The record list the server sent to the last getInventory.
Payload == Answer.json.val

\* getInventory handed a record list to processRecordList.
Processed ==
    /\ last.op = "getInventory" /\ last.calls # <<>>
    /\ Answer.status_code = 200 /\ Answer.json.kind = "records"

\* A raw record that has every required field of the class of its recordType.
WellFormed(raw) ==
    /\ IsRecordType(raw.recordType)
    /\ RequiredFields(recordTypeMapping[RecordTypeOf(raw.recordType)]) \subseteq raw.fields

(***************************************************************************)
(* C17.  For every recordType of the enum (object, link, directory, world, *)
(* texture, audio) processRecordList decodes a well-formed payload into    *)
(* the derived shape the table assigns to it, and the result has the       *)
(* length and the order of the input; the table is total over the enum and *)
(* maps each member to a shape of its own.                                 *)
(***************************************************************************)
C17_DecodesByTable ==
    LET shape == [v \in {"object", "link", "directory", "world", "texture", "audio"} |->
                    CASE v = "object" -> "NeosObject"
                      [] v = "link" -> "NeosLink"
                      [] v = "directory" -> "NeosDirectory"
                      [] v = "world" -> "NeosWorld"
                      [] v = "texture" -> "NeosTexture"
                      [] v = "audio" -> "NeosAudio"]
    IN  /\ { RecordType[m] : m \in DOMAIN RecordType } = DOMAIN shape
        /\ DOMAIN recordTypeMapping = DOMAIN RecordType
        /\ \A m, n \in DOMAIN RecordType :
              m # n => recordTypeMapping[m] # recordTypeMapping[n]
        /\ (Processed /\ \A i \in DOMAIN Payload : WellFormed(Payload[i])) =>
              /\ last.out.exc = None
              /\ Len(last.out.value.val) = Len(Payload)
              /\ \A i \in DOMAIN Payload :
                    /\ last.out.value.val[i].class = shape[Payload[i].recordType]
                    /\ last.out.value.val[i].id = Payload[i].id
                    /\ RecordType[last.out.value.val[i].recordType] = Payload[i].recordType

\* Two well-formed records of different types were decoded, in their order.
C17_Witness ==
    /\ Processed /\ last.out.exc = None
    /\ Len(Payload) = 2
    /\ Payload[1].recordType = "texture" /\ Payload[2].recordType = "object"
    /\ Payload[1].id = "R-2" /\ Payload[2].id = "R-1"
    /\ last.out.value.val[1].class = "NeosTexture"
    /\ last.out.value.val[2].class = "NeosObject"

(***************************************************************************)
(* C18.  A record with an unrecognized recordType is a hard decode error,  *)
(* never silently dropped: if any element of the list has one, the call    *)
(* fails and returns no list, not even one with that element left out.     *)
(***************************************************************************)
C18_UnknownTypeFails ==
    (Processed /\ \E i \in DOMAIN Payload : ~IsRecordType(Payload[i].recordType)) =>
        /\ last.out.exc # None
        /\ last.out.value = NoValue

\* A list whose first record is well-formed and whose second has an unknown
\* recordType failed in the cast to RecordType.
C18_Witness ==
    /\ Processed
    /\ Len(Payload) = 2
    /\ WellFormed(Payload[1])
    /\ ~IsRecordType(Payload[2].recordType)
    /\ last.out.exc = "ValueError"

(***************************************************************************)
(* LoginDetails: the dataclass and its __post_init__.                      *)
(***************************************************************************)
\* LoginDetails without the password test of line 106.
LoginDetails_no_password_check(ownerId, username, email, password, rememberMe) ==
    IF ~Truthy(ownerId) /\ ~Truthy(username) /\ ~Truthy(email)
    THEN Raise("NeosException", [kind |-> "str",
                                 val |-> <<"Either an ownerId, an username or an email is needed">>])
    ELSE Return([kind |-> "LoginDetails",
                 val |-> [ownerId |-> ownerId, username |-> username, email |-> email,
                          password |-> password, secretMachineId |-> "generated",
                          rememberMe |-> rememberMe]])

\* LoginDetails(ownerId, username, email, password, rememberMe=...): the
\* generated __init__ assigns the fields, then __post_init__ raises
\* NeosException when no identity field passes the truth test, and when the
\* password does not.
LoginDetails(ownerId, username, email, password, rememberMe) ==
    IF ~Truthy(ownerId) /\ ~Truthy(username) /\ ~Truthy(email)
    THEN Raise("NeosException", [kind |-> "str",
                                 val |-> <<"Either an ownerId, an username or an email is needed">>])
    ELSE IF ~Truthy(password)
         THEN Raise("NeosException", [kind |-> "str", val |-> <<"A password is needed">>])
         ELSE Return([kind |-> "LoginDetails",
                      val |-> [ownerId |-> ownerId, username |-> username,
                               email |-> email, password |-> password,
                               secretMachineId |-> "generated",
                               rememberMe |-> rememberMe]])

\* A caller constructs a LoginDetails: each optional field is left out, is
\* the empty string, or has a value.
NewLoginDetails ==
    \E ownerId \in {None, "", "U-alice"}, username \in {None, "", "alice"},
       email \in {None, "", "alice@example.org"}, password \in {None, "", "hunter2"},
       rememberMe \in {"False", "True"} :
        /\ last' = RanWith("LoginDetails", None,
                           <<ownerId, username, email, password, rememberMe>>,
                           LoginDetails(ownerId, username, email, password, rememberMe),
                           <<>>)
        /\ UNCHANGED <<userId, token, expire, secretMachineId, lastUpdate, session,
                       authfile, now>>

NextLoginDetails == NewLoginDetails

SpecLoginDetails == Init /\ [][NextLoginDetails]_vars

(***************************************************************************)
(* C19.  LoginDetails construction fails with a validation error when      *)
(* ownerId, username and email are all absent, and fails when password is  *)
(* absent whatever identity fields are set; it succeeds exactly when at    *)
(* least one identity field and a password are present, so that every      *)
(* constructed instance has an identity and a password.                    *)
(***************************************************************************)
C19_LoginDetailsValidated ==
    last.op = "LoginDetails" =>
        LET identity == \E i \in 1..3 : Truthy(last.args[i])
            password == Truthy(last.args[4])
        IN  /\ ~identity => last.out.exc = "NeosException"
            /\ ~password => last.out.exc = "NeosException"
            /\ last.out.exc = None <=> (identity /\ password)
            /\ last.out.exc # None => last.out.value = NoValue
            /\ last.out.exc = None =>
                  /\ last.out.value.val.password = last.args[4]
                  /\ \E f \in {"ownerId", "username", "email"} :
                        Truthy(last.out.value.val[f])

\* A construction with an identity and no password was refused.
C19_Witness ==
    /\ last.op = "LoginDetails"
    /\ Truthy(last.args[2]) /\ last.args[4] = None
    /\ last.out.exc = "NeosException"

(***************************************************************************)
(* C20.  Logout bypasses the refresh gate.  In the Expired state           *)
(* (lastUpdate set, the elapsed time beyond the window) logout still       *)
(* issues the DELETE, without a keep-alive and without raising the local   *)
(* InvalidToken, and when the server acknowledges it the client is         *)
(* Unauthenticated: Expired can always be left through logout.             *)
(***************************************************************************)
\* Client c holds no credential and no lastUpdate.
Unauthenticated(c) ==
    /\ userId[c] = None /\ token[c] = None /\ expire[c] = NoTime
    /\ secretMachineId[c] = None /\ lastUpdate[c] = NoTime

C20_LogoutLeavesExpired ==
    [][\A c \in Clients :
          (last'.op = "logout" /\ last'.client = c /\ BeyondWindow(c)) =>
              /\ Len(last'.calls) = 1
              /\ last'.calls[1].verb = "delete"
              /\ last'.calls[1].path = <<"/userSessions", userId[c], token[c]>>
              /\ last'.out # TokenExpired
              /\ Accepts(last'.calls[1].response) =>
                    /\ Unauthenticated(c)'
                    /\ SessionOf(c)'.Authorization = NoAuth]_vars

\* An expired client has logged out: its DELETE was sent when lastUpdate was
\* more than a window old, and it now holds nothing.
C20_Witness ==
    /\ last.op = "logout" /\ last.out.exc = None
    /\ last.calls[1].lastUpdate # NoTime
    /\ now - last.calls[1].lastUpdate > RenewalWindow
    /\ Unauthenticated("A")
    /\ session.Authorization = NoAuth

(***************************************************************************)
(* C21.  If the keep-alive PATCH issued by the refresh gate is classified  *)
(* as an error (a 403, a generic API error, any other), that error is the  *)
(* caller's: the operation ends with it, the endpoint call is never issued *)
(* and lastUpdate is not advanced.                                         *)
(***************************************************************************)
C21_KeepAliveErrorPropagates ==
    [][\A c \in Clients :
          (/\ last'.client = c /\ last'.calls # <<>>
           /\ IsKeepAlive(last'.calls[1])
           /\ ~Accepts(last'.calls[1].response)) =>
              /\ last'.out.exc # None
              /\ last'.out = Classify(last'.calls[1].response)
              /\ Len(last'.calls) = 1
              /\ lastUpdate'[c] = lastUpdate[c]
              /\ UNCHANGED <<userId, token, expire, secretMachineId, session>>]_vars

\* A request made after time has passed since the login had its keep-alive
\* refused with 403: InvalidToken reached the caller and lastUpdate is still
\* the time of the login.
C21_Witness ==
    /\ last.op = "searchUser"
    /\ Len(last.calls) = 1
    /\ IsKeepAlive(last.calls[1])
    /\ last.calls[1].response.status_code = 403
    /\ last.out.exc = "InvalidToken"
    /\ lastUpdate["A"] # NoTime
    /\ lastUpdate["A"] < now

====
